---- MODULE Spec2Model ----
(***************************************************************************)
(* A model of music_agent.py: the combination generator, the level rule of *)
(* the hierarchy builder, the validator and the duplicate merger.          *)
(*                                                                         *)
(* Python strings are sequences of one-character strings, so that lower(), *)
(* split(), slicing, joining and the character comparisons of the          *)
(* similarity measure are computed as the code computes them.              *)
(***************************************************************************)
EXTENDS Integers, Sequences, FiniteSets, TLC

VARIABLES
  \* DuplicateDetector.merge_duplicates
  jellyfish,      \* whether the optional jellyfish module was imported
  genres,         \* the list handed to merge_duplicates / _merge_genre_group
  i,              \* the outer loop index of merge_duplicates (1-based)
  processed,      \* the set `processed`
  merged_genres,  \* the list `merged_genres`
  groups,         \* the `similar_indices` of every group formed, in order
  mpc,            \* where the merger is
  pass,           \* 1: merging the input, 2: merging the first result again
  out1,           \* the value returned by the first call
  out2,           \* the value returned by the second call
  \* DynamicGenreGenerator.generate_combinations
  config,         \* data_sources: regions, eras, instruments, base_genres
  limit,          \* the argument `limit`
  generated,      \* the list `generated`
  gpc,            \* where the generator is
  rk,             \* how many regional-fusion candidates the loops have visited
  micro_n,        \* the length of range(min(3000, limit - len(generated)))
  micro_i,        \* iterations of the micro-genre loop done
  returned,       \* the returned list
  assigned,       \* candidate index -> level computed by _determine_level_advanced
  \* QualityAssurance.validate_batch
  batch,          \* the list handed to validate_batch
  vi,             \* the loop index of validate_batch (1-based)
  valid_genres,   \* the list `valid_genres`
  all_errors,     \* the list `all_errors`
  errors,         \* what the last call of validate_entry returned
  vpc,            \* where validate_batch is
  \* MetadataEnricher._infer_status
  arg_genre_name, \* the argument `genre_name`
  arg_period,     \* the argument `period`, as _infer_period(genre_name) gives it
  ret_status,     \* the returned status
  spc,            \* where the inference is
  \* HierarchyBuilder._determine_level_advanced
  arg_combo,      \* the argument `combo`
  arg_level_map,  \* the argument `level_map`
  arg_parent_id,  \* the argument `parent_id`
  ret_level,      \* the returned level
  lpc,            \* where the level rule is
  \* HierarchyBuilder.get_next_id
  id_counter,     \* self.id_counter
  id_lock,        \* the thread holding self.id_lock, if any
  tpc,            \* thread -> where it is in get_next_id
  current_id,     \* thread -> its local `current_id`
  issued,         \* the ids read under the lock, in the order they were read
  got,            \* the completed calls, in the order they returned
  \* HierarchyBuilder.build_hierarchy
  genre_combinations, \* the argument `genre_combinations`
  built,          \* the list `genres` of build_hierarchy
  bpc,            \* where build_hierarchy is
  bexc,           \* the exception build_hierarchy raised, if any
  \* MusicGenreAgentV4.run
  target_count,   \* the argument `target_count`
  batch_size,     \* generation_rules.batch_size
  export_format,  \* the argument `export_format`
  rpc,            \* where run is
  rexc,           \* the exception raised inside the try block, if any
  batches_done,   \* iterations of the loop of process_in_batches completed
  db,             \* the list generate_database returned
  run_result,     \* what run returned
  \* MusicGenreAgentV4.__init__
  cfg_similarity_threshold, \* validation_rules.similarity_threshold of the loaded config, in hundredths
  det_similarity_threshold, \* self.duplicate_detector.similarity_threshold, in hundredths
  pair,           \* two entries handed to the detector of the agent
  judged,         \* what _are_similar returned for them
  apc             \* where the agent is

mergeVars == <<jellyfish, genres, i, processed, merged_genres, groups, mpc, pass, out1, out2>>
genVars == <<config, limit, generated, gpc, rk, micro_n, micro_i, returned, assigned>>
valVars == <<batch, vi, valid_genres, all_errors, errors, vpc>>
statusVars == <<arg_genre_name, arg_period, ret_status, spc>>
levelVars == <<arg_combo, arg_level_map, arg_parent_id, ret_level, lpc>>
idVars == <<id_counter, id_lock, tpc, current_id, issued, got>>
buildVars == <<genre_combinations, built, bpc, bexc>>
runVars == <<target_count, batch_size, export_format, rpc, rexc, batches_done, db, run_result>>
agentVars == <<cfg_similarity_threshold, det_similarity_threshold, pair, judged, apc>>
restVars == <<statusVars, levelVars, idVars, buildVars, runVars, agentVars>>
vars == <<mergeVars, genVars, valVars, restVars>>

-----------------------------------------------------------------------------
(* Bounds of the model *)

\* longest list handed to merge_duplicates
MaxLen == 3
\* largest group handed to _merge_genre_group
MaxGroup == 5
\* most context words around the replaced word of a synonym pair
MaxCtx == 1
\* most regions, eras, instruments and base genres a configuration lists
MaxRegions == 3
MaxEras == 1
MaxInstruments == 1
MaxBases == 2
\* largest `limit` handed to generate_combinations
MaxLimit == 14
\* most iterations of the micro-genre loop
MaxMicro == 2
\* random.choice draws one of the first MaxPick elements of its list
MaxPick == 2
\* the parents tried for a candidate are the first MaxParent main genres
MaxParent == 2
\* longest list handed to validate_batch
MaxBatch == 3
\* most words of a name handed to _infer_status
MaxWords == 2
\* most components of a candidate handed to _determine_level_advanced
MaxComponents == 5
\* most threads calling get_next_id, and most calls they make between them
MaxThreads == 2
MaxCalls == 4
\* largest target_count and batch_size of a run
MaxTarget == 3
MaxBatchSize == 2

-----------------------------------------------------------------------------
(* Python values *)

None == {}
Some(x) == {x}

Min(a, b) == IF a <= b THEN a ELSE b
Max(a, b) == IF a >= b THEN a ELSE b
MinOf(S) == CHOOSE x \in S : \A y \in S : x <= y

\* s[:n]
Take(s, n) == SubSeq(s, 1, Min(n, Len(s)))

UpperChars ==
  <<"A","B","C","D","E","F","G","H","I","J","K","L","M",
    "N","O","P","Q","R","S","T","U","V","W","X","Y","Z">>
LowerChars ==
  <<"a","b","c","d","e","f","g","h","i","j","k","l","m",
    "n","o","p","q","r","s","t","u","v","w","x","y","z">>

LowerChar(c) ==
  IF \E k \in 1..26 : UpperChars[k] = c
  THEN LowerChars[CHOOSE k \in 1..26 : UpperChars[k] = c]
  ELSE c

\* str.lower()
RECURSIVE Lower(_)
Lower(s) == IF s = <<>> THEN <<>> ELSE <<LowerChar(Head(s))>> \o Lower(Tail(s))

\* str.split(): the maximal runs of non-blank characters, in order
RECURSIVE SplitFrom(_, _, _, _)
SplitFrom(s, k, word, acc) ==
  IF k > Len(s)
  THEN IF word = <<>> THEN acc ELSE Append(acc, word)
  ELSE IF s[k] = " "
       THEN SplitFrom(s, k + 1, <<>>, IF word = <<>> THEN acc ELSE Append(acc, word))
       ELSE SplitFrom(s, k + 1, Append(word, s[k]), acc)

Split(s) == SplitFrom(s, 1, <<>>, <<>>)

Range(s) == {s[k] : k \in 1..Len(s)}

\* sep.join(parts)
RECURSIVE Join(_, _)
Join(sep, parts) ==
  IF parts = <<>> THEN <<>>
  ELSE IF Len(parts) = 1 THEN parts[1]
  ELSE parts[1] \o sep \o Join(sep, Tail(parts))

\* list(dict.fromkeys(xs)): the first occurrence of every value, in order
RECURSIVE FromKeys(_, _)
FromKeys(xs, acc) ==
  IF xs = <<>> THEN acc
  ELSE FromKeys(Tail(xs), IF Head(xs) \in Range(acc) THEN acc ELSE Append(acc, Head(xs)))

-----------------------------------------------------------------------------
(* DuplicateDetector: similarity of two names *)

\* similarity_threshold, in hundredths (DuplicateDetector() is built with the default)
similarity_threshold == 85

\* the first index j in lo..hi with s2[j] = c that is not flagged, or 0
RECURSIVE FirstMatch(_, _, _, _, _)
FirstMatch(s2, c, lo, hi, f2) ==
  IF lo > hi THEN 0
  ELSE IF lo \notin f2 /\ s2[lo] = c THEN lo
  ELSE FirstMatch(s2, c, lo + 1, hi, f2)

\* the matching pass of jellyfish.jaro_winkler: for every character of s1 in
\* turn, the first unmatched equal character of s2 inside the search window.
\* The result is <<matched indices of s1 in order, matched indices of s2>>.
RECURSIVE JaroFlags(_, _, _, _, _)
JaroFlags(s1, s2, k, f1, f2) ==
  IF k > Len(s1) THEN <<f1, f2>>
  ELSE LET range == Max(0, (Max(Len(s1), Len(s2)) \div 2) - 1)
           j == FirstMatch(s2, s1[k], Max(1, k - range), Min(k + range, Len(s2)), f2)
       IN IF j = 0
          THEN JaroFlags(s1, s2, k + 1, f1, f2)
          ELSE JaroFlags(s1, s2, k + 1, Append(f1, k), f2 \cup {j})

\* the elements of a set of indices in increasing order
Sorted(S) ==
  IF S = {} THEN <<>>
  ELSE LET hi == CHOOSE x \in S : \A y \in S : y <= x
       IN SelectSeq([k \in 1..hi |-> k], LAMBDA k : k \in S)

\* the common prefix length, looked for in the first min(len, 4) characters
RECURSIVE PrefixLen(_, _, _)
PrefixLen(s1, s2, k) ==
  IF k < Min(Min(Len(s1), Len(s2)), 4) /\ s1[k + 1] = s2[k + 1]
  THEN PrefixLen(s1, s2, k + 1)
  ELSE k

\* jellyfish.jaro_winkler(s1, s2) as a fraction <<numerator, denominator>>
JaroWinkler(s1, s2) ==
  IF Len(s1) = 0 \/ Len(s2) = 0 THEN <<0, 1>>
  ELSE LET fl == JaroFlags(s1, s2, 1, <<>>, {})
           a  == fl[1]
           b  == Sorted(fl[2])
           m  == Len(a)
           t  == Cardinality({k \in 1..m : s1[a[k]] # s2[b[k]]}) \div 2
           jn == m * m * Len(s2) + m * m * Len(s1) + (m - t) * Len(s1) * Len(s2)
           jd == 3 * m * Len(s1) * Len(s2)
           p  == PrefixLen(s1, s2, 0)
       IN IF m = 0 THEN <<0, 1>>
          ELSE IF 10 * jn > 7 * jd
               THEN <<10 * jn + p * (jd - jn), 10 * jd>>
               ELSE <<jn, jd>>

\* similarity > self.similarity_threshold
AboveThreshold(sim, threshold) == 100 * sim[1] > threshold * sim[2]

W_uk       == <<"u","k">>
W_british  == <<"b","r","i","t","i","s","h">>
W_german   == <<"g","e","r","m","a","n">>
W_deutsch  == <<"d","e","u","t","s","c","h">>
W_french   == <<"f","r","e","n","c","h">>
W_francais == <<"f","r","a","n","ç","a","i","s">>
W_american == <<"a","m","e","r","i","c","a","n">>
W_us       == <<"u","s">>

\* the dict `synonyms` of _are_variants, as its (key, value) items
synonyms ==
  { <<W_uk, W_british>>, <<W_british, W_uk>>,
    <<W_german, W_deutsch>>, <<W_deutsch, W_german>>,
    <<W_french, W_francais>>,
    <<W_american, W_us>>, <<W_us, W_american>> }

\* the word set of a name with the synonym of every word of it added
ExpandedWords(name) ==
  LET words == Range(Split(Lower(name)))
  IN words \cup {kv[2] : kv \in {x \in synonyms : x[1] \in words}}

\* len(common) >= len(words) * 0.7; the float product is exact enough that
\* the comparison agrees with the comparison of integers
AtLeast70(common, words) == 10 * Cardinality(common) >= 7 * Cardinality(words)

AreVariantsBoth(name1, name2) ==
  LET words1 == ExpandedWords(name1)
      words2 == ExpandedWords(name2)
      common == words1 \cap words2
  IN AtLeast70(common, words1) /\ AtLeast70(common, words2)

AreVariants(name1, name2) ==
  LET words1 == ExpandedWords(name1)
      words2 == ExpandedWords(name2)
      common == words1 \cap words2
  IN AtLeast70(common, words1) \/ AtLeast70(common, words2)

\* _are_similar(g1, g2), with `jf` telling whether jellyfish is there
AreSimilar(jf, g1, g2) ==
  \/ Lower(g1.name) = Lower(g2.name)
  \/ /\ jf
     /\ AboveThreshold(JaroWinkler(Lower(g1.name), Lower(g2.name)), similarity_threshold)
  \/ AreVariants(g1.name, g2.name)

-----------------------------------------------------------------------------
(* Genre, the dataclass *)

Digits == <<"0","1","2","3","4","5","6","7","8","9">>

\* a short text that tells the field and the entry it belongs to
Tag(c, n) == <<c, Digits[(n % 10) + 1]>>

Genre(id, name, level, parent_id, source) ==
  [ id |-> id, name |-> name, level |-> level, parent_id |-> parent_id,
    region |-> Tag("R", id), language |-> Tag("L", id),
    period |-> <<"1","9","5", Digits[(id % 10) + 1], "-","n","o","w">>,
    status |-> << <<"A","H","E","X">>[(id % 4) + 1] >>,
    instruments |-> Tag("I", id), pioneers |-> Tag("P", id),
    artists |-> Tag("A", id), works |-> Tag("W", id),
    source |-> source,
    bpm |-> Tag("B", id), time_signature |-> Tag("T", id) ]

-----------------------------------------------------------------------------
(* DuplicateDetector: merging *)

\* [xs[k] for k in S], in increasing order of k
Pick(xs, S) == LET idx == Sorted(S) IN [k \in 1..Len(idx) |-> xs[idx[k]]]

\* _merge_genre_group with the last member as base
MergeGenreGroupLast(group) ==
  LET base == group[Len(group)]
      all_sources == [k \in 1..Len(group) |-> group[k].source]
      unique_sources == FromKeys(all_sources, <<>>)
      combined_source == Join(<<" ", "/", " ">>, Take(unique_sources, 3))
  IN [base EXCEPT !.source = combined_source]

\* _merge_genre_group without the removal of repeated sources
MergeGenreGroupRepeats(group) ==
  LET base == group[1]
      all_sources == [k \in 1..Len(group) |-> group[k].source]
  IN [base EXCEPT !.source = Join(<<" ", "/", " ">>, Take(all_sources, 3))]

\* _merge_genre_group(group)
MergeGenreGroup(group) ==
  LET base == group[1]
      all_sources == [k \in 1..Len(group) |-> group[k].source]
      unique_sources == FromKeys(all_sources, <<>>)
      combined_source == Join(<<" ", "/", " ">>, Take(unique_sources, 3))
  IN [ id |-> base.id, name |-> base.name, level |-> base.level,
       parent_id |-> base.parent_id, region |-> base.region,
       language |-> base.language, period |-> base.period,
       status |-> base.status, instruments |-> base.instruments,
       pioneers |-> base.pioneers, artists |-> base.artists,
       works |-> base.works, source |-> combined_source,
       bpm |-> base.bpm, time_signature |-> base.time_signature ]

\* the inner loop without its `j not in processed` test
SimilarIndicesAnyLater(jf, gs, done, h) ==
  {h} \cup {j \in (h + 1)..Len(gs) : AreSimilar(jf, gs[h], gs[j])}

\* the inner loop comparing with every member gathered so far
SimilarIndicesChained(jf, gs, done, h) ==
  LET direct == {h} \cup {j \in (h + 1)..Len(gs) : j \notin done /\ AreSimilar(jf, gs[h], gs[j])}
  IN direct \cup {j \in (h + 1)..Len(gs) :
                    j \notin done /\ \E m \in direct : m < j /\ AreSimilar(jf, gs[m], gs[j])}

\* the inner loop looking at the next entry only
SimilarIndicesAdjacent(jf, gs, done, h) ==
  {h} \cup {j \in (h + 1)..Min(h + 1, Len(gs)) : j \notin done /\ AreSimilar(jf, gs[h], gs[j])}

\* similar_indices after the inner loop of merge_duplicates for head h
SimilarIndices(jf, gs, done, h) ==
  {h} \cup {j \in (h + 1)..Len(gs) : j \notin done /\ AreSimilar(jf, gs[h], gs[j])}

\* `if i in processed: continue`
MergeSkip ==
  /\ mpc = "loop"
  /\ i <= Len(genres)
  /\ i \in processed
  /\ i' = i + 1
  /\ UNCHANGED <<jellyfish, genres, processed, merged_genres, groups, mpc, pass, out1, out2>>

\* one iteration of the outer loop that forms a group
MergeGroup ==
  /\ mpc = "loop"
  /\ i <= Len(genres)
  /\ i \notin processed
  /\ LET similar_indices == SimilarIndices(jellyfish, genres, processed, i)
         similar_group == Pick(genres, similar_indices)
     IN /\ merged_genres' =
             Append(merged_genres,
                    IF Len(similar_group) > 1
                    THEN MergeGenreGroup(similar_group)
                    ELSE genres[i])
        /\ processed' = processed \cup similar_indices
        /\ groups' = Append(groups, similar_indices)
  /\ i' = i + 1
  /\ UNCHANGED <<jellyfish, genres, mpc, pass, out1, out2>>

\* the second loop (entries not yet processed) and the return
MergeReturn ==
  /\ mpc = "loop"
  /\ i > Len(genres)
  /\ LET result == merged_genres \o Pick(genres, (1..Len(genres)) \ processed)
     IN IF pass = 1
        THEN out1' = result /\ out2' = out2
        ELSE out2' = result /\ out1' = out1
  /\ mpc' = "returned"
  /\ UNCHANGED <<jellyfish, genres, i, processed, merged_genres, groups, pass>>

\* merge_duplicates called again on what it returned
MergeAgain ==
  /\ mpc = "returned"
  /\ pass = 1
  /\ genres' = out1
  /\ i' = 1
  /\ processed' = {}
  /\ merged_genres' = <<>>
  /\ groups' = <<>>
  /\ pass' = 2
  /\ mpc' = "loop"
  /\ UNCHANGED <<jellyfish, out1, out2>>

\* _merge_genre_group called on a group
MergeGroupCall ==
  /\ mpc = "group"
  /\ merged_genres' = <<MergeGenreGroup(genres)>>
  /\ mpc' = "grouped"
  /\ UNCHANGED <<jellyfish, genres, i, processed, groups, pass, out1, out2>>

-----------------------------------------------------------------------------
(* Inputs of the merger *)

N_UKJazz      == <<"U","K"," ","J","a","z","z">>
N_ukjazz      == <<"u","k"," ","j","a","z","z">>
N_Jazz        == <<"J","a","z","z">>
N_RockJazz    == <<"R","o","c","k"," ","J","a","z","z">>
N_Jazzy       == <<"J","a","z","z","y">>

MergeNames == {N_UKJazz, N_ukjazz, N_Jazz, N_RockJazz, N_Jazzy}

SourceText(n) == <<"s", "r", "c", Digits[(n % 10) + 1]>>

MergeSources == {SourceText(1), SourceText(2)}

\* the entry at position p of an input list: ids follow the positions, the
\* first entry is a root and every other one names its predecessor as parent
InputGenre(p, name, source) ==
  Genre(p, name, IF p = 1 THEN 1 ELSE 2, IF p = 1 THEN None ELSE Some(p - 1), source)

\* the input list of n entries whose names and sources f gives
InputList(n, f) == [p \in 1..n |-> InputGenre(p, f[p][1], f[p][2])]

MergeStart(gs, pc) ==
  /\ genres = gs
  /\ i = 1
  /\ processed = {}
  /\ merged_genres = <<>>
  /\ groups = <<>>
  /\ mpc = pc
  /\ pass = 1
  /\ out1 = <<>>
  /\ out2 = <<>>

-----------------------------------------------------------------------------
(* The parts of the program a specification leaves alone *)

NoConfig == [regions |-> <<>>, eras |-> <<>>, instruments |-> <<>>, base_genres |-> <<>>]

StatusIdle ==
  /\ arg_genre_name = <<>>
  /\ arg_period = <<>>
  /\ ret_status = <<>>
  /\ spc = "idle"

NoCombo == [name |-> <<>>, type |-> "", components |-> <<>>]

LevelIdle ==
  /\ arg_combo = NoCombo
  /\ arg_level_map = <<>>
  /\ arg_parent_id = None
  /\ ret_level = 0
  /\ lpc = "idle"

\* the threads that may call get_next_id
Threads == 1..MaxThreads

\* HierarchyBuilder.__init__
BuilderInit ==
  /\ id_counter = 1
  /\ id_lock = None
  /\ tpc = [t \in Threads |-> "idle"]
  /\ current_id = [t \in Threads |-> 0]
  /\ issued = <<>>
  /\ got = <<>>

BuildIdle ==
  /\ genre_combinations = <<>>
  /\ built = <<>>
  /\ bpc = "idle"
  /\ bexc = None

RunIdle ==
  /\ target_count = 0
  /\ batch_size = 1
  /\ export_format = ""
  /\ rpc = "idle"
  /\ rexc = None
  /\ batches_done = 0
  /\ db = <<>>
  /\ run_result = <<>>

AgentIdle ==
  /\ cfg_similarity_threshold = 0
  /\ det_similarity_threshold = 0
  /\ pair = <<>>
  /\ judged = FALSE
  /\ apc = "idle"

RestIdle ==
  /\ StatusIdle
  /\ LevelIdle
  /\ BuilderInit
  /\ BuildIdle
  /\ RunIdle
  /\ AgentIdle

GenIdle ==
  /\ config = NoConfig
  /\ limit = 0
  /\ generated = <<>>
  /\ gpc = "idle"
  /\ rk = 0
  /\ micro_n = 0
  /\ micro_i = 0
  /\ returned = <<>>
  /\ assigned = <<>>

ValIdle ==
  /\ batch = <<>>
  /\ vi = 1
  /\ valid_genres = <<>>
  /\ all_errors = <<>>
  /\ errors = <<>>
  /\ vpc = "idle"

MergeIdle ==
  /\ jellyfish = FALSE
  /\ MergeStart(<<>>, "idle")

-----------------------------------------------------------------------------
(* merge_duplicates on every short list of entries, then on its own result *)

InitMerge ==
  /\ jellyfish \in BOOLEAN
  /\ \E n \in 0..MaxLen :
       \E f \in [1..n -> MergeNames \X MergeSources] : MergeStart(InputList(n, f), "loop")
  /\ GenIdle
  /\ ValIdle
  /\ RestIdle

NextMerge ==
  \/ MergeSkip /\ UNCHANGED <<genVars, valVars, restVars>>
  \/ MergeGroup /\ UNCHANGED <<genVars, valVars, restVars>>
  \/ MergeReturn /\ UNCHANGED <<genVars, valVars, restVars>>
  \/ MergeAgain /\ UNCHANGED <<genVars, valVars, restVars>>

SpecMerge == InitMerge /\ [][NextMerge]_vars

\* what the call of the current pass returned
MergeResult == IF pass = 1 THEN out1 ELSE out2

\* the indices put in groups before group k
EarlierGroups(k) == UNION {groups[q] : q \in 1..(k - 1)}

\* C1: merging what merge_duplicates returned returns it unchanged: the same
\* entries in the same order with the same field values
C1_Idempotent ==
  (pass = 2 /\ mpc = "returned") => out2 = out1

\* a second call has returned for a first call that merged a group and kept
\* another entry
C1_Witness ==
  /\ pass = 2
  /\ mpc = "returned"
  /\ Len(out1) >= 2
  /\ \E k \in 1..Len(out1) : out1[k].source \notin MergeSources

\* C2: when merge_duplicates returns, every input index is in exactly one
\* group, the output holds one entry per group in the order of the group
\* heads, it is no longer than the input, a group of one contributes its
\* entry unchanged, and a one-entry list is returned as it is
C2_OnePerGroup ==
  mpc = "returned" =>
    /\ \A p \in 1..Len(genres) :
         Cardinality({k \in 1..Len(groups) : p \in groups[k]}) = 1
    /\ Len(MergeResult) = Len(groups)
    /\ Len(MergeResult) <= Len(genres)
    /\ \A k \in 1..Len(groups) :
         /\ groups[k] # {}
         /\ MergeResult[k].id = genres[MinOf(groups[k])].id
         /\ MergeResult[k].name = genres[MinOf(groups[k])].name
         /\ k > 1 => MinOf(groups[k - 1]) < MinOf(groups[k])
         /\ Cardinality(groups[k]) = 1 => MergeResult[k] = genres[MinOf(groups[k])]
    /\ Len(genres) = 1 => MergeResult = genres

\* the first call has returned two entries for three: a merged group and an
\* entry on its own
C2_Witness ==
  /\ pass = 1
  /\ mpc = "returned"
  /\ Len(genres) = 3
  /\ Len(out1) = 2
  /\ \E k \in 1..2 : Cardinality(groups[k]) = 1 /\ out1[k] = genres[MinOf(groups[k])]

\* C3: the group formed at head h holds h and exactly the later indices that
\* are in no earlier group and are similar to entry h; similarity to another
\* member of the group does not add an index
C3_StarAroundHead ==
  \A k \in 1..Len(groups) :
    LET h == MinOf(groups[k])
    IN groups[k] =
         {h} \cup {j \in (h + 1)..Len(genres) :
                     /\ j \notin EarlierGroups(k)
                     /\ AreSimilar(jellyfish, genres[h], genres[j])}

\* a group has a member that is similar to a later free entry which is not
\* similar to the head, and that entry is outside the group
C3_Witness ==
  \E k \in 1..Len(groups) :
    LET h == MinOf(groups[k])
    IN \E m \in groups[k] \ {h} :
         \E j \in (m + 1)..Len(genres) :
           /\ j \notin EarlierGroups(k)
           /\ AreSimilar(jellyfish, genres[m], genres[j])
           /\ ~AreSimilar(jellyfish, genres[h], genres[j])
           /\ j \notin groups[k]

-----------------------------------------------------------------------------
(* _merge_genre_group on every short group *)

GroupNames == {N_UKJazz, N_ukjazz}

GroupSources == {SourceText(1), SourceText(2), SourceText(3), SourceText(4)}

InitGroup ==
  /\ jellyfish = FALSE
  /\ \E n \in 2..MaxGroup :
       \E f \in [1..n -> GroupNames \X GroupSources] : MergeStart(InputList(n, f), "group")
  /\ GenIdle
  /\ ValIdle
  /\ RestIdle

NextGroup == MergeGroupCall /\ UNCHANGED <<genVars, valVars, restVars>>

SpecGroup == InitGroup /\ [][NextGroup]_vars

\* the positions of a group whose source no earlier member has
NewSourceAt(group) ==
  {p \in 1..Len(group) : \A q \in 1..(p - 1) : group[q].source # group[p].source}

\* the first three of them
FirstThreeNew(group) ==
  {p \in NewSourceAt(group) : Cardinality({q \in NewSourceAt(group) : q < p}) < 3}

\* C4: the entry merged from a group of more than one member has every field
\* but source equal to the first member's, and its source is the first three
\* distinct member sources, in member order, joined by " / "
C4_MergedEntry ==
  mpc = "grouped" =>
    LET m == merged_genres[1]
        first == genres[1]
    IN /\ Len(genres) > 1
       /\ m.id = first.id
       /\ m.name = first.name
       /\ m.level = first.level
       /\ m.parent_id = first.parent_id
       /\ m.region = first.region
       /\ m.language = first.language
       /\ m.period = first.period
       /\ m.status = first.status
       /\ m.instruments = first.instruments
       /\ m.pioneers = first.pioneers
       /\ m.artists = first.artists
       /\ m.works = first.works
       /\ m.bpm = first.bpm
       /\ m.time_signature = first.time_signature
       /\ DOMAIN m = DOMAIN first
       /\ m.source =
            Join(<<" ", "/", " ">>,
                 [k \in 1..Cardinality(FirstThreeNew(genres)) |->
                    genres[Sorted(FirstThreeNew(genres))[k]].source])

\* a group was merged that has more distinct sources than are kept, a source
\* that repeats before the last new one, and members with other names than
\* the first
C4_Witness ==
  /\ mpc = "grouped"
  /\ Cardinality(NewSourceAt(genres)) > 3
  /\ \E p \in 1..Len(genres) :
       /\ p \notin NewSourceAt(genres)
       /\ \E q \in FirstThreeNew(genres) : q > p
  /\ \E p \in 1..Len(genres) : genres[p].name # genres[1].name

-----------------------------------------------------------------------------
(* merge_duplicates on two names that differ by a synonym *)

UpperChar(c) ==
  IF \E k \in 1..26 : LowerChars[k] = c
  THEN UpperChars[CHOOSE k \in 1..26 : LowerChars[k] = c]
  ELSE c

RECURSIVE Upper(_)
Upper(s) == IF s = <<>> THEN <<>> ELSE <<UpperChar(Head(s))>> \o Upper(Tail(s))

\* the spellings of a word a name may use
Spellings(w) == {w, <<UpperChar(Head(w))>> \o Tail(w), Upper(w)}

W_HipHop == <<"H","i","p","-","H","o","p">>

ContextWords == {W_HipHop, N_Jazz}

ContextLists == UNION { [1..n -> ContextWords] : n \in 0..MaxCtx }

\* the two names: the words before, the word or its synonym, the words after
\* a name: the words joined by single blanks
NameOf(words) == Join(<<" ">>, words)

InitVariants ==
  /\ jellyfish \in BOOLEAN
  /\ \E kv \in synonyms, pre \in ContextLists, post \in ContextLists :
       \E w1 \in Spellings(kv[1]), w2 \in Spellings(kv[2]), first \in 1..2 :
         LET pr == <<NameOf(pre \o <<w1>> \o post), NameOf(pre \o <<w2>> \o post)>>
         IN MergeStart(<<InputGenre(1, pr[first], SourceText(1)),
                         InputGenre(2, pr[3 - first], SourceText(2))>>, "loop")
  /\ GenIdle
  /\ ValIdle
  /\ RestIdle

SpecVariants == InitVariants /\ [][NextMerge]_vars

\* C5: two names that differ by one word replaced with its listed synonym are
\* variants of each other in both orders, and merge_duplicates returns one
\* entry for the two, with or without jellyfish
C5_SynonymsMerge ==
  /\ pass = 1 =>
       /\ AreVariants(genres[1].name, genres[2].name)
       /\ AreVariants(genres[2].name, genres[1].name)
  /\ (pass = 1 /\ mpc = "returned") =>
       /\ Len(out1) = 1
       /\ out1[1].id = genres[1].id
       /\ groups = <<{1, 2}>>

\* without jellyfish, "Français Hip-Hop" first and "french Hip-Hop" second
\* came back as one entry
C5_Witness ==
  /\ pass = 1
  /\ mpc = "returned"
  /\ ~jellyfish
  /\ Lower(genres[1].name) = W_francais \o <<" ">> \o Lower(W_HipHop)
  /\ Lower(genres[2].name) = W_french \o <<" ">> \o Lower(W_HipHop)
  /\ Len(out1) = 1

-----------------------------------------------------------------------------
(* DynamicGenreGenerator *)

\* the concatenation of a sequence of sequences
RECURSIVE Concat(_)
Concat(ss) == IF ss = <<>> THEN <<>> ELSE Head(ss) \o Concat(Tail(ss))

\* list(itertools.combinations(xs, 2))
Combinations2(xs) ==
  Concat([a \in 1..Len(xs) |-> [b \in 1..(Len(xs) - a) |-> <<xs[a], xs[a + b]>>]])

\* the slices of generate_combinations
RegionalRegions == 15
RegionalBases == 10
RegionalPatterns == 2
InstrumentCount == 10
InstrumentBases == 10
InstrumentPatterns == 2
TraditionalRegions == 10
MicroRegions == 20
MicroMax == 3000

\* genre_patterns['regional_fusion'], each pattern as its format()
FormatRegional(pattern, r1, r2, base) ==
  CASE pattern = 1 -> r1 \o <<" ">> \o r2 \o <<" ","F","u","s","i","o","n">>
    [] pattern = 2 -> r1 \o <<"-">> \o r2 \o <<" ">> \o base \o <<" ","H","y","b","r","i","d">>
    [] pattern = 3 -> <<"T","r","a","n","s","-">> \o r1 \o <<" ">> \o base
    [] pattern = 4 -> r1 \o <<" ","m","e","e","t","s"," ">> \o r2 \o <<" ">> \o base

\* genre_patterns['era_genre']
FormatEra(pattern, era, base) ==
  CASE pattern = 1 -> era \o <<" ">> \o base
    [] pattern = 2 -> <<"N","e","o","-">> \o era \o <<" ">> \o base
    [] pattern = 3 -> era \o <<" ","R","e","v","i","v","a","l"," ">> \o base
    [] pattern = 4 -> <<"P","o","s","t","-">> \o era \o <<" ">> \o base

\* genre_patterns['instrument_based']
FormatInstrument(pattern, instrument, base) ==
  CASE pattern = 1 -> instrument \o <<" ">> \o base
    [] pattern = 2 -> <<"E","l","e","c","t","r","i","c"," ">> \o instrument \o <<" ">> \o base
    [] pattern = 3 -> <<"A","c","o","u","s","t","i","c"," ">> \o instrument \o <<" ">> \o base
    [] pattern = 4 -> instrument \o <<"-","d","r","i","v","e","n"," ">> \o base

\* the four patterns of each of these lists, in order
PatternList == <<1, 2, 3, 4>>

\* self.modifiers
modifiers ==
  [ electronic |->
  <<<<"S","y","n","t","h">>,
    <<"D","i","g","i","t","a","l">>,
    <<"C","y","b","e","r">>,
    <<"E","l","e","c","t","r","o">>,
    <<"T","e","c","h","n","o">>>>,
    traditional |->
  <<<<"F","o","l","k">>,
    <<"T","r","a","d","i","t","i","o","n","a","l">>,
    <<"E","t","h","n","i","c">>,
    <<"N","a","t","i","v","e">>,
    <<"I","n","d","i","g","e","n","o","u","s">>>>,
    modern |->
  <<<<"N","e","w">>,
    <<"M","o","d","e","r","n">>,
    <<"C","o","n","t","e","m","p","o","r","a","r","y">>,
    <<"P","o","s","t">>,
    <<"N","e","o">>>> ]

\* instrument.split('/')[0]
RECURSIVE BeforeSlash(_)
BeforeSlash(s) ==
  IF s = <<>> \/ Head(s) = "/" THEN <<>> ELSE <<Head(s)>> \o BeforeSlash(Tail(s))

Candidate(name, type, components) ==
  [name |-> name, type |-> type, components |-> components]

\* what the loops of strategy 1 append, in order, when nothing stops them
RegionalCandidates(cfg) ==
  LET pairs == Combinations2(Take(cfg.regions, RegionalRegions))
      bases == Take(cfg.base_genres, RegionalBases)
      pats  == Take(PatternList, RegionalPatterns)
  IN Concat([a \in 1..Len(pairs) |->
       Concat([b \in 1..Len(bases) |->
         [c \in 1..Len(pats) |->
            Candidate(FormatRegional(pats[c], pairs[a][1], pairs[a][2], bases[b]),
                      "regional_fusion",
                      <<pairs[a][1], pairs[a][2], bases[b]>>)]])])

\* what the loops of strategy 2 append
EraCandidates(cfg) ==
  Concat([a \in 1..Len(cfg.eras) |->
    Concat([b \in 1..Len(cfg.base_genres) |->
      [c \in 1..Len(PatternList) |->
         Candidate(FormatEra(PatternList[c], cfg.eras[a], cfg.base_genres[b]),
                   "era_variant",
                   <<cfg.eras[a], cfg.base_genres[b]>>)]])])

\* what the loops of strategy 3 append
InstrumentCandidates(cfg) ==
  LET instruments == Take(cfg.instruments, InstrumentCount)
      bases == Take(cfg.base_genres, InstrumentBases)
      pats  == Take(PatternList, InstrumentPatterns)
  IN Concat([a \in 1..Len(instruments) |->
       Concat([b \in 1..Len(bases) |->
         [c \in 1..Len(pats) |->
            Candidate(FormatInstrument(pats[c], BeforeSlash(instruments[a]), bases[b]),
                      "instrument_based",
                      <<instruments[a], bases[b]>>)]])])

\* what the loops of strategy 4 append: per base genre the electronic
\* variants, then the traditional variants of every region
ModifierCandidates(cfg) ==
  LET el == modifiers.electronic
      tr == modifiers.traditional
      regions == Take(cfg.regions, TraditionalRegions)
  IN Concat([b \in 1..Len(cfg.base_genres) |->
       [m \in 1..Len(el) |->
          Candidate(el[m] \o <<" ">> \o cfg.base_genres[b],
                    "electronic_variant",
                    <<el[m], cfg.base_genres[b]>>)]
       \o
       Concat([m \in 1..Len(tr) |->
         [r \in 1..Len(regions) |->
            Candidate(regions[r] \o <<" ">> \o tr[m] \o <<" ">> \o cfg.base_genres[b],
                      "traditional_variant",
                      <<regions[r], tr[m], cfg.base_genres[b]>>)]])])

\* the values random.choice(xs) is let to return; none for an empty list
Choices(xs) == Range(Take(xs, MaxPick))

\* one regional-fusion candidate is appended; the loops return when the list
\* has reached limit
GenRegionalNoReturn ==
  /\ gpc = "regional"
  /\ rk < Len(RegionalCandidates(config))
  /\ generated' = Append(generated, RegionalCandidates(config)[rk + 1])
  /\ rk' = rk + 1
  /\ UNCHANGED <<gpc, returned>>
  /\ UNCHANGED <<config, limit, micro_n, micro_i, assigned>>

GenRegional ==
  /\ gpc = "regional"
  /\ rk < Len(RegionalCandidates(config))
  /\ generated' = Append(generated, RegionalCandidates(config)[rk + 1])
  /\ rk' = rk + 1
  /\ IF Len(generated') >= limit
     THEN gpc' = "returned" /\ returned' = generated'
     ELSE UNCHANGED <<gpc, returned>>
  /\ UNCHANGED <<config, limit, micro_n, micro_i, assigned>>

\* the loops of strategy 1 are over; strategy 2 runs
GenEra ==
  /\ gpc = "regional"
  /\ rk = Len(RegionalCandidates(config))
  /\ generated' = generated \o EraCandidates(config)
  /\ gpc' = "instrument"
  /\ UNCHANGED <<config, limit, rk, micro_n, micro_i, returned, assigned>>

GenInstrument ==
  /\ gpc = "instrument"
  /\ generated' = generated \o InstrumentCandidates(config)
  /\ gpc' = "modifier"
  /\ UNCHANGED <<config, limit, rk, micro_n, micro_i, returned, assigned>>

\* strategy 4, and the range of the micro-genre loop
GenModifier ==
  /\ gpc = "modifier"
  /\ generated' = generated \o ModifierCandidates(config)
  /\ micro_n' = Max(0, Min(MicroMax, limit - Len(generated')))
  /\ micro_i' = 0
  /\ gpc' = "micro"
  /\ UNCHANGED <<config, limit, rk, returned, assigned>>

\* one iteration of the micro-genre loop: each random.random() test goes
\* either way; random.choice of an empty list raises IndexError
GenMicro ==
  /\ gpc = "micro"
  /\ micro_i < micro_n
  /\ \E use_modern \in BOOLEAN, use_region \in BOOLEAN, use_electronic \in BOOLEAN :
       LET regions == Take(config.regions, MicroRegions)
       IN IF (use_region /\ regions = <<>>) \/ config.base_genres = <<>>
          THEN /\ gpc' = "raised"
               /\ UNCHANGED <<generated, micro_i>>
          ELSE \E mo \in (IF use_modern THEN Choices(modifiers.modern) ELSE {<<>>}),
                  re \in (IF use_region THEN Choices(regions) ELSE {<<>>}),
                  el \in (IF use_electronic THEN Choices(modifiers.electronic) ELSE {<<>>}),
                  ba \in Choices(config.base_genres) :
                 LET components ==
                       (IF use_modern THEN <<mo>> ELSE <<>>)
                       \o (IF use_region THEN <<re>> ELSE <<>>)
                       \o (IF use_electronic THEN <<el>> ELSE <<>>)
                       \o <<ba>>
                 IN /\ generated' =
                         Append(generated,
                                Candidate(Join(<<" ">>, components), "micro_genre", components))
                    /\ micro_i' = micro_i + 1
                    /\ gpc' = gpc
  /\ UNCHANGED <<config, limit, rk, micro_n, returned, assigned>>

\* return generated[:limit]
GenReturn ==
  /\ gpc = "micro"
  /\ micro_i = micro_n
  /\ returned' = Take(generated, limit)
  /\ gpc' = "returned"
  /\ UNCHANGED <<config, limit, generated, rk, micro_n, micro_i, assigned>>

-----------------------------------------------------------------------------
(* HierarchyBuilder: the level of a candidate *)

\* len(main_genres)
NumMainGenres == 20

\* level_map once build_hierarchy of a fresh builder has seeded the main genres
MainLevelMap == [id \in 1..NumMainGenres |-> 1]

\* _determine_level_advanced whatever the number of components
DetermineLevelAnyCount(combo, level_map, parent_id) ==
  IF parent_id = None THEN 1
  ELSE LET pid == CHOOSE x \in parent_id : TRUE
           parent_level == IF pid \in DOMAIN level_map THEN level_map[pid] ELSE 1
       IN IF combo.type \in {"era_variant", "regional_fusion"} THEN Min(parent_level + 1, 2)
          ELSE IF combo.type \in {"instrument_based", "electronic_variant"} THEN Min(parent_level + 1, 3)
          ELSE IF combo.type \in {"traditional_variant", "micro_genre"} THEN Min(parent_level + 2, 4)
          ELSE Min(parent_level + 2, 5)

\* _determine_level_advanced with no cap in its last branch
DetermineLevelUncapped(combo, level_map, parent_id) ==
  IF parent_id = None THEN 1
  ELSE LET pid == CHOOSE x \in parent_id : TRUE
           parent_level == IF pid \in DOMAIN level_map THEN level_map[pid] ELSE 1
       IN IF combo.type \in {"era_variant", "regional_fusion"} /\ Len(combo.components) <= 2
          THEN Min(parent_level + 1, 2)
          ELSE IF combo.type \in {"instrument_based", "electronic_variant"} /\ Len(combo.components) <= 3
          THEN Min(parent_level + 1, 3)
          ELSE IF combo.type \in {"traditional_variant", "micro_genre"} /\ Len(combo.components) <= 4
          THEN Min(parent_level + 2, 4)
          ELSE parent_level + 2

\* _determine_level_advanced with the parent's own level in its first row
DetermineLevelNoStep(combo, level_map, parent_id) ==
  IF parent_id = None THEN 1
  ELSE LET pid == CHOOSE x \in parent_id : TRUE
           parent_level == IF pid \in DOMAIN level_map THEN level_map[pid] ELSE 1
       IN IF combo.type \in {"era_variant", "regional_fusion"} /\ Len(combo.components) <= 2
          THEN Min(parent_level, 2)
          ELSE IF combo.type \in {"instrument_based", "electronic_variant"} /\ Len(combo.components) <= 3
          THEN Min(parent_level + 1, 3)
          ELSE IF combo.type \in {"traditional_variant", "micro_genre"} /\ Len(combo.components) <= 4
          THEN Min(parent_level + 2, 4)
          ELSE Min(parent_level + 2, 5)

\* _determine_level_advanced(combo, level_map, parent_id)
DetermineLevelAdvanced(combo, level_map, parent_id) ==
  IF parent_id = None THEN 1
  ELSE LET pid == CHOOSE x \in parent_id : TRUE
           parent_level == IF pid \in DOMAIN level_map THEN level_map[pid] ELSE 1
           components == combo.components
           combo_type == combo.type
       IN IF combo_type \in {"era_variant", "regional_fusion"} /\ Len(components) <= 2
          THEN Min(parent_level + 1, 2)
          ELSE IF combo_type \in {"instrument_based", "electronic_variant"} /\ Len(components) <= 3
          THEN Min(parent_level + 1, 3)
          ELSE IF combo_type \in {"traditional_variant", "micro_genre"} /\ Len(components) <= 4
          THEN Min(parent_level + 2, 4)
          ELSE Min(parent_level + 2, 5)

\* the parent ids tried for a candidate
ParentInputs == {None} \cup {Some(r) : r \in 1..MaxParent}

\* the level of one returned candidate under one parent
DetermineLevel ==
  /\ gpc = "returned"
  /\ \E k \in 1..Len(returned), parent_id \in ParentInputs :
       assigned' = << [ combo |-> returned[k], parent_id |-> parent_id,
                        level |-> DetermineLevelAdvanced(returned[k], MainLevelMap, parent_id) ] >>
  /\ UNCHANGED <<config, limit, generated, gpc, rk, micro_n, micro_i, returned>>

-----------------------------------------------------------------------------
(* Inputs of the generator *)

RegionPool ==
  <<<<"U","S","A">>,
    <<"U","K">>,
    <<"D","e","u","t","s","c","h","l","a","n","d">>,
    <<"F","r","a","n","k","r","e","i","c","h">>,
    <<"I","t","a","l","i","e","n">>>>
EraPool ==
  <<<<"B","a","r","o","q","u","e">>,
    <<"M","o","d","e","r","n">>,
    <<"D","i","g","i","t","a","l">>>>
InstrumentPool ==
  <<<<"G","u","i","t","a","r","/","G","i","t","a","r","r","e">>,
    <<"S","y","n","t","h","e","s","i","z","e","r">>,
    <<"P","i","a","n","o","/","K","l","a","v","i","e","r">>>>
BasePool ==
  <<<<"J","a","z","z">>,
    <<"B","l","u","e","s">>,
    <<"R","o","c","k">>>>

\* data_sources with the first nr regions, ne eras, ni instruments, nb base genres
Config(nr, ne, ni, nb) ==
  [ regions |-> Take(RegionPool, nr), eras |-> Take(EraPool, ne),
    instruments |-> Take(InstrumentPool, ni), base_genres |-> Take(BasePool, nb) ]

\* how many candidates strategies 1 to 4 append when nothing stops them
Supply14(cfg) ==
  Len(RegionalCandidates(cfg)) + Len(EraCandidates(cfg))
    + Len(InstrumentCandidates(cfg)) + Len(ModifierCandidates(cfg))

GenStart(cfg, lim) ==
  /\ config = cfg
  /\ limit = lim
  /\ generated = <<>>
  /\ gpc = "regional"
  /\ rk = 0
  /\ micro_n = 0
  /\ micro_i = 0
  /\ returned = <<>>
  /\ assigned = <<>>

\* generate_combinations(limit) for every small vocabulary and limit; the
\* micro-genre loop is let to run MaxMicro times at most
InitGen ==
  /\ \E nr \in 0..MaxRegions, ne \in 0..MaxEras, ni \in 0..MaxInstruments, nb \in 0..MaxBases :
       \E lim \in 0..Min(MaxLimit, Supply14(Config(nr, ne, ni, nb)) + MaxMicro) :
         GenStart(Config(nr, ne, ni, nb), lim)
  /\ MergeIdle
  /\ ValIdle
  /\ RestIdle

NextGen ==
  \/ GenRegional /\ UNCHANGED <<mergeVars, valVars, restVars>>
  \/ GenEra /\ UNCHANGED <<mergeVars, valVars, restVars>>
  \/ GenInstrument /\ UNCHANGED <<mergeVars, valVars, restVars>>
  \/ GenModifier /\ UNCHANGED <<mergeVars, valVars, restVars>>
  \/ GenMicro /\ UNCHANGED <<mergeVars, valVars, restVars>>
  \/ GenReturn /\ UNCHANGED <<mergeVars, valVars, restVars>>

SpecGen == InitGen /\ [][NextGen]_vars

\* the regional-fusion candidates of a vocabulary, each under each parent
InitLevel ==
  /\ \E nr \in 2..MaxRegions, nb \in 1..MaxBases :
       \E lim \in 1..Min(MaxLimit, Len(RegionalCandidates(Config(nr, 0, 0, nb)))) :
         GenStart(Config(nr, 0, 0, nb), lim)
  /\ MergeIdle
  /\ ValIdle
  /\ RestIdle

NextLevel ==
  \/ GenRegional /\ UNCHANGED <<mergeVars, valVars, restVars>>
  \/ DetermineLevel /\ UNCHANGED <<mergeVars, valVars, restVars>>

SpecLevel == InitLevel /\ [][NextLevel]_vars

-----------------------------------------------------------------------------
(* QualityAssurance *)

\* validation_rules['max_name_length']
max_name_length == 100

IsDigit(c) == c \in Range(Digits)

\* s is between 1 and 4 digits, then `suffix` or nothing
DigitsThen(s, suffix) ==
  \E n \in 1..4 :
    /\ Len(s) >= n
    /\ \A k \in 1..n : IsDigit(s[k])
    /\ SubSeq(s, n + 1, Len(s)) \in {<<>>, suffix}

\* _validate_period_format(period) with the default period_format,
\* ^\d{1,4}(BC)?-(\d{1,4}(AD)?|now)$ ; $ also matches before a final newline
ValidatePeriodFormat(period) ==
  \E d \in 1..Len(period) :
    /\ period[d] = "-"
    /\ DigitsThen(SubSeq(period, 1, d - 1), <<"B", "C">>)
    /\ LET rest == SubSeq(period, d + 1, Len(period))
           body == IF rest # <<>> /\ rest[Len(rest)] = "\n"
                   THEN SubSeq(rest, 1, Len(rest) - 1)
                   ELSE rest
       IN \/ body = <<"n", "o", "w">>
          \/ DigitsThen(body, <<"A", "D">>)

\* str(n) for an integer
RECURSIVE StrNat(_)
StrNat(n) == IF n < 10 THEN <<Digits[n + 1]>> ELSE StrNat(n \div 10) \o <<Digits[(n % 10) + 1]>>

Str(n) == IF n < 0 THEN <<"-">> \o StrNat(0 - n) ELSE StrNat(n)

\* validate_entry with the level and parent checks chained by elif
ValidateEntryChained(genre) ==
  (IF Len(genre.name) > max_name_length
   THEN << <<"N","a","m","e"," ","t","o","o"," ","l","o","n","g",":"," ">> \o Str(Len(genre.name)) \o <<" ","c","h","a","r","s">> >>
   ELSE <<>>)
  \o (IF ~ValidatePeriodFormat(genre.period)
      THEN << <<"I","n","v","a","l","i","d"," ","p","e","r","i","o","d"," ","f","o","r","m","a","t",":"," ">> \o genre.period >>
      ELSE <<>>)
  \o (IF genre.status \notin {<<"A">>, <<"H">>, <<"E">>, <<"X">>}
      THEN << <<"I","n","v","a","l","i","d"," ","s","t","a","t","u","s",":"," ">> \o genre.status >>
      ELSE <<>>)
  \o (IF genre.level < 1 \/ genre.level > 5
      THEN << <<"I","n","v","a","l","i","d"," ","l","e","v","e","l",":"," ">> \o Str(genre.level) >>
      ELSE IF genre.level > 1 /\ genre.parent_id = None
      THEN << <<"M","i","s","s","i","n","g"," ","p","a","r","e","n","t","_","i","d"," ","f","o","r"," ","n","o","n","-","r","o","o","t"," ","g","e","n","r","e">> >>
      ELSE <<>>)

\* validate_entry(genre): the list of error messages
ValidateEntry(genre) ==
  (IF Len(genre.name) > max_name_length
   THEN << <<"N","a","m","e"," ","t","o","o"," ","l","o","n","g",":"," ">> \o Str(Len(genre.name)) \o <<" ","c","h","a","r","s">> >>
   ELSE <<>>)
  \o (IF ~ValidatePeriodFormat(genre.period)
      THEN << <<"I","n","v","a","l","i","d"," ","p","e","r","i","o","d"," ","f","o","r","m","a","t",":"," ">> \o genre.period >>
      ELSE <<>>)
  \o (IF genre.status \notin {<<"A">>, <<"H">>, <<"E">>, <<"X">>}
      THEN << <<"I","n","v","a","l","i","d"," ","s","t","a","t","u","s",":"," ">> \o genre.status >>
      ELSE <<>>)
  \o (IF genre.level < 1 \/ genre.level > 5
      THEN << <<"I","n","v","a","l","i","d"," ","l","e","v","e","l",":"," ">> \o Str(genre.level) >>
      ELSE <<>>)
  \o (IF genre.level > 1 /\ genre.parent_id = None
      THEN << <<"M","i","s","s","i","n","g"," ","p","a","r","e","n","t","_","i","d"," ","f","o","r"," ","n","o","n","-","r","o","o","t"," ","g","e","n","r","e">> >>
      ELSE <<>>)

\* f"Genre {genre.id} ({genre.name}): "
ErrorPrefix(genre) ==
  <<"G","e","n","r","e"," ">> \o Str(genre.id) \o <<" ", "(">> \o genre.name \o <<")", ":", " ">>

\* one iteration of the loop of validate_batch that keeps every entry
ValidateStepKeepsAll ==
  /\ vpc = "loop"
  /\ vi <= Len(batch)
  /\ errors' = ValidateEntry(batch[vi])
  /\ valid_genres' = Append(valid_genres, batch[vi])
  /\ all_errors' = all_errors \o [k \in 1..Len(errors') |-> ErrorPrefix(batch[vi]) \o errors'[k]]
  /\ vi' = vi + 1
  /\ UNCHANGED <<batch, vpc>>

\* one iteration of the loop of validate_batch
ValidateStep ==
  /\ vpc = "loop"
  /\ vi <= Len(batch)
  /\ errors' = ValidateEntry(batch[vi])
  /\ IF errors' = <<>>
     THEN /\ valid_genres' = Append(valid_genres, batch[vi])
          /\ all_errors' = all_errors
     ELSE /\ valid_genres' = valid_genres
          /\ all_errors' =
               all_errors \o [k \in 1..Len(errors') |-> ErrorPrefix(batch[vi]) \o errors'[k]]
  /\ vi' = vi + 1
  /\ UNCHANGED <<batch, vpc>>

\* return valid_genres, all_errors
ValidateReturn ==
  /\ vpc = "loop"
  /\ vi > Len(batch)
  /\ vpc' = "returned"
  /\ UNCHANGED <<batch, vi, valid_genres, all_errors, errors>>

-----------------------------------------------------------------------------
(* Inputs of the validator *)

\* a name of 101 characters
LongName == [k \in 1..(max_name_length + 1) |-> "x"]

ValNames == {N_Jazz, LongName}

ValPeriods ==
  { <<"1","9","5","0","-","n","o","w">>,
    <<"3","0","0","0","B","C","-","5","0","0","A","D">>,
    <<"4","0","0","0","0","B","C","-","3","0","0","0","B","C">>,
    <<"1","9","5","0">> }

ValStatuses == {<<"A">>, <<"Z">>}

ValLevels == {0, 1, 3, 5, 6}

ValParents == {None, Some(1)}

ValGenre(id, name, period, status, level, parent_id) ==
  [Genre(id, name, level, parent_id, SourceText(id)) EXCEPT !.period = period, !.status = status]

\* the entries a list is made of: sound ones, one with each of the level and
\* parent violations, one with both, one with every violation
BatchPool ==
  { <<N_Jazz, <<"1","9","5","0","-","n","o","w">>, <<"A">>, 1, None>>,
    <<N_UKJazz, <<"1","9","5","0","-","n","o","w">>, <<"H">>, 2, Some(1)>>,
    <<N_Jazz, <<"1","9","5","0","-","n","o","w">>, <<"A">>, 6, Some(1)>>,
    <<N_Jazz, <<"1","9","5","0","-","n","o","w">>, <<"A">>, 3, None>>,
    <<N_Jazz, <<"1","9","5","0","-","n","o","w">>, <<"A">>, 6, None>>,
    <<LongName, <<"1","9","5","0">>, <<"Z">>, 0, None>> }

ValStart(gs) ==
  /\ batch = gs
  /\ vi = 1
  /\ valid_genres = <<>>
  /\ all_errors = <<>>
  /\ errors = <<>>
  /\ vpc = "loop"

\* validate_batch on every single entry, and on every short list of the pool
InitValidate ==
  /\ \/ \E name \in ValNames, period \in ValPeriods, status \in ValStatuses,
           level \in ValLevels, parent_id \in ValParents :
          ValStart(<<ValGenre(1, name, period, status, level, parent_id)>>)
     \/ \E n \in 0..MaxBatch :
          \E f \in [1..n -> BatchPool] :
            ValStart([p \in 1..n |-> ValGenre(p, f[p][1], f[p][2], f[p][3], f[p][4], f[p][5])])
  /\ MergeIdle
  /\ GenIdle
  /\ RestIdle

NextValidate ==
  \/ ValidateStep /\ UNCHANGED <<mergeVars, genVars, restVars>>
  \/ ValidateReturn /\ UNCHANGED <<mergeVars, genVars, restVars>>

SpecValidate == InitValidate /\ [][NextValidate]_vars

-----------------------------------------------------------------------------
(* Properties of the generator *)

\* the place of a candidate type in the order of the strategies
StrategyRank(type) ==
  CASE type = "regional_fusion" -> 1
    [] type = "era_variant" -> 2
    [] type = "instrument_based" -> 3
    [] type \in {"electronic_variant", "traditional_variant"} -> 4
    [] type = "micro_genre" -> 5

\* C6: generate_combinations(limit) returns at most limit candidates for
\* every limit >= 0, and exactly limit when the strategies can supply them
C6_AtMostLimit ==
  gpc = "returned" =>
    /\ Len(returned) <= limit
    /\ Supply14(config) + MicroMax >= limit => Len(returned) = limit

\* the same for every limit of one or more
C6_FromLimitOne ==
  (gpc = "returned" /\ limit >= 1) =>
    /\ Len(returned) <= limit
    /\ Supply14(config) + MicroMax >= limit => Len(returned) = limit

\* C7: candidates are appended strategy by strategy in the fixed order, and
\* when the regional-fusion loops alone bring the list to limit the call
\* returns from inside them: nothing of a later strategy was appended and
\* the result is the first regional-fusion candidates only
C7_StrategyOrder ==
  /\ \A a \in 1..Len(generated) : \A b \in a..Len(generated) :
       StrategyRank(generated[a].type) <= StrategyRank(generated[b].type)
  /\ gpc = "returned" => returned = Take(generated, Len(returned))
  /\ (gpc = "returned" /\ Len(RegionalCandidates(config)) >= Max(limit, 1)) =>
       /\ \A k \in 1..Len(returned) : returned[k].type = "regional_fusion"
       /\ returned = Take(RegionalCandidates(config), Max(limit, 1))
       /\ generated = returned
       /\ rk = Len(returned)

\* the call returned from inside the regional-fusion loops with candidates
\* left over, for a vocabulary whose later strategies have candidates too
C7_Witness ==
  /\ gpc = "returned"
  /\ limit >= 2
  /\ Len(RegionalCandidates(config)) > limit
  /\ EraCandidates(config) # <<>>
  /\ ModifierCandidates(config) # <<>>
  /\ Len(returned) = limit
  /\ \A k \in 1..Len(returned) : returned[k].type = "regional_fusion"

\* C8: a regional-fusion candidate of the generator whose parent is a
\* level-1 main genre gets a level of at most 2
C8_RegionalAtMostTwo ==
  \A k \in 1..Len(assigned) :
    LET a == assigned[k]
    IN (/\ a.combo.type = "regional_fusion"
        /\ a.parent_id # None
        /\ \A pid \in a.parent_id : pid \in DOMAIN MainLevelMap /\ MainLevelMap[pid] = 1)
       => a.level <= 2

-----------------------------------------------------------------------------
(* Properties of the validator *)

\* the checks of validate_entry an entry violates
Violations(e) ==
  {c \in {"name", "period", "status", "level", "parent"} :
     \/ c = "name" /\ Len(e.name) > max_name_length
     \/ c = "period" /\ ~ValidatePeriodFormat(e.period)
     \/ c = "status" /\ e.status \notin {<<"A">>, <<"H">>, <<"E">>, <<"X">>}
     \/ c = "level" /\ e.level \notin 1..5
     \/ c = "parent" /\ e.level > 1 /\ e.parent_id = None}

StartsWith(s, prefix) == Len(s) >= Len(prefix) /\ SubSeq(s, 1, Len(prefix)) = prefix

LevelReason(e) == <<"I","n","v","a","l","i","d"," ","l","e","v","e","l",":"," ">> \o Str(e.level)

ParentReason == <<"M","i","s","s","i","n","g"," ","p","a","r","e","n","t","_","i","d"," ","f","o","r"," ","n","o","n","-","r","o","o","t"," ","g","e","n","r","e">>

\* how often x occurs in the list xs
Count(xs, x) == Cardinality({k \in 1..Len(xs) : xs[k] = x})

\* C9: validate_entry returns one reason per violated check: a level-range
\* reason exactly when the level is outside 1..5, a missing-parent reason
\* exactly when the level is above 1 and parent_id is None, both when both
C9_EveryViolationReported ==
  (vpc = "loop" /\ vi > 1) =>
    LET e == batch[vi - 1]
    IN /\ Len(errors) = Cardinality(Violations(e))
       /\ Count(errors, LevelReason(e)) = (IF e.level \notin 1..5 THEN 1 ELSE 0)
       /\ Count(errors, ParentReason) = (IF e.level > 1 /\ e.parent_id = None THEN 1 ELSE 0)
       /\ \A k \in 1..Len(errors) :
            /\ StartsWith(errors[k], <<"I","n","v","a","l","i","d"," ","l","e","v","e","l">>) => e.level \notin 1..5
            /\ StartsWith(errors[k], <<"M","i","s","s","i","n","g"," ","p","a","r","e","n","t">>) =>
                 (e.level > 1 /\ e.parent_id = None)

\* validate_entry has returned for an entry of level 6 without parent whose
\* other fields are sound: the two reasons and no other
C9_Witness ==
  /\ vpc = "loop"
  /\ vi > 1
  /\ batch[vi - 1].level = 6
  /\ batch[vi - 1].parent_id = None
  /\ Violations(batch[vi - 1]) = {"level", "parent"}
  /\ Len(errors) = 2

\* the messages of all_errors that are about entry g
MessagesOf(g) == {k \in 1..Len(all_errors) : StartsWith(all_errors[k], ErrorPrefix(g))}

\* C10: validate_batch returns as valid exactly the entries without
\* violation, in input order, and as errors one message per violation of
\* every other entry, in input order; no entry is in both, none is lost
C10_Partition ==
  vpc = "returned" =>
    /\ valid_genres = SelectSeq(batch, LAMBDA g : Violations(g) = {})
    /\ \A p \in 1..Len(batch) :
         /\ Cardinality(MessagesOf(batch[p])) =
              (IF batch[p] \in Range(valid_genres) THEN 0 ELSE Cardinality(Violations(batch[p])))
         /\ batch[p] \in Range(valid_genres) <=> MessagesOf(batch[p]) = {}
         /\ \A q \in (p + 1)..Len(batch) :
              \A a \in MessagesOf(batch[p]), b \in MessagesOf(batch[q]) : a < b
    /\ \A k \in 1..Len(all_errors) : \E p \in 1..Len(batch) : k \in MessagesOf(batch[p])

\* validate_batch has returned the first and third of three entries, with
\* the two messages of the second
C10_Witness ==
  /\ vpc = "returned"
  /\ Len(batch) = 3
  /\ valid_genres = <<batch[1], batch[3]>>
  /\ Len(all_errors) = 2

-----------------------------------------------------------------------------
(* MetadataEnricher: the period and the status of a name *)

\* sub in s
Contains(s, sub) ==
  \E k \in 0..(Len(s) - Len(sub)) : SubSeq(s, k + 1, k + Len(sub)) = sub

\* s.endswith(suffix)
EndsWith(s, suffix) ==
  Len(s) >= Len(suffix) /\ SubSeq(s, Len(s) - Len(suffix) + 1, Len(s)) = suffix

\* self.period_rules, in the order of the dict
period_rules ==
  << <<<<"A","n","c","i","e","n","t">>, <<"3","0","0","0","B","C","-","5","0","0","A","D">>>>,
     <<<<"M","e","d","i","e","v","a","l">>, <<"5","0","0","-","1","4","0","0">>>>,
     <<<<"R","e","n","a","i","s","s","a","n","c","e">>, <<"1","4","0","0","-","1","6","0","0">>>>,
     <<<<"B","a","r","o","q","u","e">>, <<"1","6","0","0","-","1","7","5","0">>>>,
     <<<<"C","l","a","s","s","i","c","a","l">>, <<"1","7","5","0","-","1","8","2","0">>>>,
     <<<<"R","o","m","a","n","t","i","c">>, <<"1","8","2","0","-","1","9","0","0">>>>,
     <<<<"M","o","d","e","r","n">>, <<"1","9","0","0","-","2","0","0","0">>>>,
     <<<<"C","o","n","t","e","m","p","o","r","a","r","y">>, <<"2","0","0","0","-","n","o","w">>>>,
     <<<<"E","l","e","c","t","r","o","n","i","c">>, <<"1","9","6","0","-","n","o","w">>>>,
     <<<<"D","i","g","i","t","a","l">>, <<"1","9","9","0","-","n","o","w">>>>,
     <<<<"P","r","e","h","i","s","t","o","r","i","c">>, <<"4","0","0","0","0","B","C","-","3","0","0","0","B","C">>>> >>

\* any(term in genre_name.lower() for term in terms)
AnyTermIn(terms, genre_name) == \E t \in terms : Contains(Lower(genre_name), t)

\* _infer_period(genre_name)
InferPeriod(genre_name) ==
  LET hits == {k \in 1..Len(period_rules) : Contains(Lower(genre_name), Lower(period_rules[k][1]))}
  IN IF hits # {} THEN period_rules[MinOf(hits)][2]
     ELSE IF AnyTermIn({<<"e","l","e","c","t","r","o","n","i","c">>, <<"s","y","n","t","h">>, <<"d","i","g","i","t","a","l">>, <<"c","y","b","e","r">>}, genre_name)
     THEN <<"1","9","8","0","-","n","o","w">>
     ELSE IF AnyTermIn({<<"t","r","a","d","i","t","i","o","n","a","l">>, <<"f","o","l","k">>, <<"e","t","h","n","i","c">>}, genre_name)
     THEN <<"1","8","0","0","-","n","o","w">>
     ELSE IF AnyTermIn({<<"c","l","a","s","s","i","c","a","l">>, <<"b","a","r","o","q","u","e">>, <<"r","o","m","a","n","t","i","c">>}, genre_name)
     THEN <<"1","6","0","0","-","1","9","0","0">>
     ELSE <<"1","9","5","0","-","n","o","w">>

T_extinct == <<"e","x","t","i","n","c","t">>
T_1900 == <<"1","9","0","0">>
T_now == <<"n","o","w">>
EmergingTerms == {<<"e","m","e","r","g","i","n","g">>, <<"n","e","w">>, <<"f","u","t","u","r","e">>}

\* _infer_status with the test for 'E' put before the test for 'X'
InferStatusEmergingFirst(genre_name, period) ==
  IF AnyTermIn(EmergingTerms, genre_name) THEN <<"E">>
  ELSE IF Contains(Lower(genre_name), T_extinct) \/ EndsWith(period, T_1900) THEN <<"X">>
  ELSE IF EndsWith(period, T_now) THEN <<"A">>
  ELSE <<"H">>

\* _infer_status(genre_name, period)
InferStatus(genre_name, period) ==
  IF Contains(Lower(genre_name), T_extinct) \/ EndsWith(period, T_1900) THEN <<"X">>
  ELSE IF AnyTermIn(EmergingTerms, genre_name) THEN <<"E">>
  ELSE IF EndsWith(period, T_now) THEN <<"A">>
  ELSE <<"H">>

\* status = self._infer_status(genre_name, period)
InferStatusCall ==
  /\ spc = "call"
  /\ ret_status' = InferStatus(arg_genre_name, arg_period)
  /\ spc' = "returned"
  /\ UNCHANGED <<arg_genre_name, arg_period>>

\* the words the names are made of
StatusWords ==
  << <<"E","x","t","i","n","c","t">>,
     <<"E","X","T","I","N","C","T">>,
     <<"N","e","w">>,
     <<"F","u","t","u","r","e">>,
     <<"E","m","e","r","g","i","n","g">>,
     <<"R","e","n","e","w","a","l">>,
     <<"R","o","m","a","n","t","i","c">>,
     <<"M","e","d","i","e","v","a","l">>,
     <<"J","a","z","z">>,
     <<"F","o","l","k">>,
     <<"C","l","a","s","s","i","c","a","l">> >>

\* the names of one to MaxWords words
StatusNames ==
  UNION { { Join(<<" ">>, [k \in 1..n |-> StatusWords[f[k]]]) : f \in [1..n -> 1..Len(StatusWords)] }
          : n \in 1..MaxWords }

\* generate_realistic_metadata up to the call of _infer_status
InitStatus ==
  /\ \E n \in StatusNames :
       /\ arg_genre_name = n
       /\ arg_period = InferPeriod(n)
  /\ ret_status = <<>>
  /\ spc = "call"
  /\ LevelIdle
  /\ BuilderInit
  /\ BuildIdle
  /\ RunIdle
  /\ AgentIdle
  /\ MergeIdle
  /\ GenIdle
  /\ ValIdle

NextStatus == InferStatusCall /\ UNCHANGED <<mergeVars, genVars, valVars, levelVars, idVars, buildVars, runVars, agentVars>>

SpecStatus == InitStatus /\ [][NextStatus]_vars

\* C20: the status is 'X' when the name holds "extinct" in any case or the
\* period ends with "1900"; failing that 'E' when the name holds "emerging",
\* "new" or "future"; failing that 'A' when the period ends with "now";
\* failing that 'H'; it is always one of the four
C20_FirstMatchWins ==
  spc = "returned" =>
    LET n == Lower(arg_genre_name)
        x == Contains(n, T_extinct) \/ EndsWith(arg_period, T_1900)
        e == \E t \in EmergingTerms : Contains(n, t)
        a == EndsWith(arg_period, T_now)
    IN /\ ret_status \in {<<"A">>, <<"H">>, <<"E">>, <<"X">>}
       /\ x => ret_status = <<"X">>
       /\ (~x /\ e) => ret_status = <<"E">>
       /\ (~x /\ ~e /\ a) => ret_status = <<"A">>
       /\ (~x /\ ~e /\ ~a) => ret_status = <<"H">>

\* a name holding both "extinct" and "new" has got 'X'
C20_Witness ==
  /\ spc = "returned"
  /\ Contains(Lower(arg_genre_name), T_extinct)
  /\ Contains(Lower(arg_genre_name), <<"n","e","w">>)
  /\ ret_status = <<"X">>

-----------------------------------------------------------------------------
(* HierarchyBuilder: the level rule on every kind of candidate *)

\* `if level <= 5` of build_hierarchy
MaxLevelKept == 5

\* the types generate_combinations gives its candidates, and the type 'main'
\* build_hierarchy gives the main genres
LevelTypes ==
  {"regional_fusion", "era_variant", "instrument_based", "electronic_variant",
   "traditional_variant", "micro_genre", "main"}

\* the level of a candidate, then the test `if level <= 5`
DetermineLevelCall ==
  /\ lpc = "call"
  /\ ret_level' = DetermineLevelAdvanced(arg_combo, arg_level_map, arg_parent_id)
  /\ lpc' = IF ret_level' <= MaxLevelKept THEN "kept" ELSE "dropped"
  /\ UNCHANGED <<arg_combo, arg_level_map, arg_parent_id>>

\* a candidate of every type with 0 to MaxComponents components, under no
\* parent or a parent whose level is in the map or not; the levels of the
\* map are levels build_hierarchy records: 1 or an earlier result
InitTable ==
  /\ \E t \in LevelTypes, n \in 0..MaxComponents :
       arg_combo = [name |-> <<"n">>, type |-> t, components |-> [k \in 1..n |-> <<"c">>]]
  /\ \E known \in SUBSET (1..MaxParent) : arg_level_map \in [known -> 1..MaxLevelKept]
  /\ arg_parent_id \in ParentInputs
  /\ ret_level = 0
  /\ lpc = "call"
  /\ StatusIdle
  /\ BuilderInit
  /\ BuildIdle
  /\ RunIdle
  /\ AgentIdle
  /\ MergeIdle
  /\ GenIdle
  /\ ValIdle

NextTable == DetermineLevelCall /\ UNCHANGED <<mergeVars, genVars, valVars, statusVars, idVars, buildVars, runVars, agentVars>>

SpecTable == InitTable /\ [][NextTable]_vars

\* the level of the parent as the claim words it: absent from the map, 1
ParentLevel ==
  LET pid == CHOOSE x \in arg_parent_id : TRUE
  IN IF pid \in DOMAIN arg_level_map THEN arg_level_map[pid] ELSE 1

\* C18: under a parent of level p, regional_fusion and era_variant with at
\* most 2 components get min(p+1, 2); failing that instrument_based and
\* electronic_variant with at most 3 get min(p+1, 3); failing that
\* traditional_variant and micro_genre with at most 4 get min(p+2, 4); every
\* other candidate gets min(p+2, 5); a parent absent from the map has level 1
C18_LevelTable ==
  (lpc # "call" /\ arg_parent_id # None) =>
    LET p == ParentLevel
        n == Len(arg_combo.components)
        t == arg_combo.type
        row1 == t \in {"regional_fusion", "era_variant"} /\ n <= 2
        row2 == t \in {"instrument_based", "electronic_variant"} /\ n <= 3
        row3 == t \in {"traditional_variant", "micro_genre"} /\ n <= 4
    IN /\ row1 => ret_level = Min(p + 1, 2)
       /\ (~row1 /\ row2) => ret_level = Min(p + 1, 3)
       /\ (~row1 /\ ~row2 /\ row3) => ret_level = Min(p + 2, 4)
       /\ (~row1 /\ ~row2 /\ ~row3) => ret_level = Min(p + 2, 5)

\* an instrument_based candidate of four components under a parent the map
\* does not know falls to the last row and gets level 3
C18_Witness ==
  /\ lpc # "call"
  /\ arg_combo.type = "instrument_based"
  /\ Len(arg_combo.components) = 4
  /\ arg_parent_id # None
  /\ (CHOOSE x \in arg_parent_id : TRUE) \notin DOMAIN arg_level_map
  /\ ret_level = 3

\* C19: every computed level is in 1..5, so the test `level <= 5` keeps
\* every candidate
C19_LevelInRange ==
  lpc # "call" => (ret_level \in 1..5 /\ lpc = "kept")

\* a candidate under a parent of level 5 is kept at level 5
C19_Witness ==
  /\ lpc = "kept"
  /\ arg_parent_id # None
  /\ ParentLevel = 5
  /\ ret_level = 5

-----------------------------------------------------------------------------
(* HierarchyBuilder.get_next_id, called by several threads *)

\* the calls of get_next_id thread t has completed
CallsOf(t) == Cardinality({k \in 1..Len(got) : got[k].thread = t})

\* the calls of get_next_id made so far, returned or not
CallsMade == Len(got) + Cardinality({t \in Threads : tpc[t] # "idle"})

\* entering `with self.id_lock` whether or not another thread holds the lock
AcquireNoLock(t) ==
  /\ tpc[t] = "idle"
  /\ CallsMade < MaxCalls
  /\ id_lock' = Some(t)
  /\ tpc' = [tpc EXCEPT ![t] = "locked"]
  /\ UNCHANGED <<id_counter, current_id, issued, got>>

\* with self.id_lock: the call waits until no thread holds the lock
Acquire(t) ==
  /\ tpc[t] = "idle"
  /\ CallsMade < MaxCalls
  /\ id_lock = None
  /\ id_lock' = Some(t)
  /\ tpc' = [tpc EXCEPT ![t] = "locked"]
  /\ UNCHANGED <<id_counter, current_id, issued, got>>

\* current_id = self.id_counter
ReadCounter(t) ==
  /\ tpc[t] = "locked"
  /\ current_id' = [current_id EXCEPT ![t] = id_counter]
  /\ issued' = Append(issued, id_counter)
  /\ tpc' = [tpc EXCEPT ![t] = "read"]
  /\ UNCHANGED <<id_counter, id_lock, got>>

\* self.id_counter += 1 that leaves the counter as it was
IncrementLost(t) ==
  /\ tpc[t] = "read"
  /\ tpc' = [tpc EXCEPT ![t] = "incremented"]
  /\ UNCHANGED <<id_counter, id_lock, current_id, issued, got>>

\* self.id_counter += 1
Increment(t) ==
  /\ tpc[t] = "read"
  /\ id_counter' = id_counter + 1
  /\ tpc' = [tpc EXCEPT ![t] = "incremented"]
  /\ UNCHANGED <<id_lock, current_id, issued, got>>

\* return current_id leaves the with block: the lock is released
Release(t) ==
  /\ tpc[t] = "incremented"
  /\ id_lock' = None
  /\ tpc' = [tpc EXCEPT ![t] = "released"]
  /\ UNCHANGED <<id_counter, current_id, issued, got>>

\* the caller receives current_id
Return(t) ==
  /\ tpc[t] = "released"
  /\ got' = Append(got, [thread |-> t, id |-> current_id[t]])
  /\ tpc' = [tpc EXCEPT ![t] = "idle"]
  /\ UNCHANGED <<id_counter, id_lock, current_id, issued>>

\* a fresh builder; the other parts of the program are left alone
InitIds ==
  /\ BuilderInit
  /\ StatusIdle
  /\ LevelIdle
  /\ BuildIdle
  /\ RunIdle
  /\ AgentIdle
  /\ MergeIdle
  /\ GenIdle
  /\ ValIdle

NextIds ==
  \/ \E t \in Threads : Acquire(t) /\ UNCHANGED <<mergeVars, genVars, valVars, statusVars, levelVars, buildVars, runVars, agentVars>>
  \/ \E t \in Threads : ReadCounter(t) /\ UNCHANGED <<mergeVars, genVars, valVars, statusVars, levelVars, buildVars, runVars, agentVars>>
  \/ \E t \in Threads : Increment(t) /\ UNCHANGED <<mergeVars, genVars, valVars, statusVars, levelVars, buildVars, runVars, agentVars>>
  \/ \E t \in Threads : Release(t) /\ UNCHANGED <<mergeVars, genVars, valVars, statusVars, levelVars, buildVars, runVars, agentVars>>
  \/ \E t \in Threads : Return(t) /\ UNCHANGED <<mergeVars, genVars, valVars, statusVars, levelVars, buildVars, runVars, agentVars>>

SpecIds == InitIds /\ [][NextIds]_vars

\* C12: the ids a builder issues, in the order it issues them, are 1, 2,
\* 3, ...: positive, increasing by one from 1, none issued twice, whichever
\* calls ask for them
C12_IdsInOrder ==
  /\ issued = [k \in 1..Len(issued) |-> k]
  /\ id_counter = Len(issued) + (IF \E t \in Threads : tpc[t] = "read" THEN 0 ELSE 1)

\* four ids have been issued, over more than one call of each caller
C12_Witness ==
  /\ Len(issued) = 4
  /\ Len(got) = 4
  /\ \E t \in Threads : CallsOf(t) = 2

\* C13: under every interleaving no two calls of get_next_id return the
\* same id, and once the n calls made have all returned the ids returned
\* are exactly 1..n
C13_NoSharedId ==
  /\ \A a, b \in 1..Len(got) : a # b => got[a].id # got[b].id
  /\ \A t, u \in Threads :
       (t # u /\ tpc[t] \in {"read", "incremented", "released"}
              /\ tpc[u] \in {"read", "incremented", "released"}) => current_id[t] # current_id[u]
  /\ (\A t \in Threads : tpc[t] = "idle") => {got[k].id : k \in 1..Len(got)} = 1..Len(got)

\* two threads have each completed a call, and the one that took the lock
\* second returned first
C13_Witness ==
  /\ \A t \in Threads : tpc[t] = "idle"
  /\ Len(got) >= 2
  /\ got[1].id = 2
  /\ got[2].id = 1
  /\ got[1].thread # got[2].thread

-----------------------------------------------------------------------------
(* HierarchyBuilder.build_hierarchy *)

\* main_genres
main_genres ==
  << <<"B","l","u","e","s">>,
     <<"J","a","z","z">>,
     <<"R","o","c","k">>,
     <<"E","l","e","c","t","r","o","n","i","c">>,
     <<"H","i","p","-","H","o","p">>,
     <<"C","l","a","s","s","i","c","a","l">>,
     <<"F","o","l","k">>,
     <<"C","o","u","n","t","r","y">>,
     <<"M","e","t","a","l">>,
     <<"P","o","p">>,
     <<"R","e","g","g","a","e">>,
     <<"S","o","u","l">>,
     <<"F","u","n","k">>,
     <<"P","u","n","k">>,
     <<"A","m","b","i","e","n","t">>,
     <<"E","x","p","e","r","i","m","e","n","t","a","l">>,
     <<"W","o","r","l","d"," ","M","u","s","i","c">>,
     <<"L","a","t","i","n">>,
     <<"R","&","B">>,
     <<"G","o","s","p","e","l">> >>

\* generate_realistic_metadata(genre_name, genre_type): the inferences run,
\* then `self._generate_source` is evaluated; MetadataEnricher has no such
\* attribute, so the call raises AttributeError before it can return
GenerateRealisticMetadata(genre_name, genre_type) ==
  LET period_ == InferPeriod(genre_name)
      status_ == InferStatus(genre_name, period_)
  IN [exc |-> Some("AttributeError"), period |-> period_, status |-> status_]

\* build_hierarchy(genre_combinations, enricher): the first iteration of the
\* loop over main_genres calls generate_realistic_metadata, whose exception
\* leaves build_hierarchy before any entry is made or any id is taken
BuildHierarchy ==
  /\ bpc = "call"
  /\ LET metadata == GenerateRealisticMetadata(main_genres[1], "main")
     IN /\ metadata.exc # None
        /\ bexc' = metadata.exc
        /\ bpc' = "raised"
        /\ built' = <<>>
  /\ UNCHANGED genre_combinations

\* what strategies 1 to 4 of generate_combinations give for a vocabulary
AllCandidates(cfg) ==
  RegionalCandidates(cfg) \o EraCandidates(cfg) \o InstrumentCandidates(cfg) \o ModifierCandidates(cfg)

\* build_hierarchy on every list generate_combinations returns for a small
\* vocabulary, the empty list included
InitBuild ==
  /\ \E nr \in 0..MaxRegions, ne \in 0..MaxEras, ni \in 0..MaxInstruments, nb \in 0..MaxBases :
       \E n \in 0..Min(MaxLimit, Len(AllCandidates(Config(nr, ne, ni, nb)))) :
         genre_combinations = Take(AllCandidates(Config(nr, ne, ni, nb)), n)
  /\ built = <<>>
  /\ bpc = "call"
  /\ bexc = None
  /\ BuilderInit
  /\ StatusIdle
  /\ LevelIdle
  /\ RunIdle
  /\ AgentIdle
  /\ MergeIdle
  /\ GenIdle
  /\ ValIdle

NextBuild ==
  BuildHierarchy /\ UNCHANGED <<mergeVars, genVars, valVars, statusVars, levelVars, idVars, runVars, agentVars>>

SpecBuild == InitBuild /\ [][NextBuild]_vars

\* C11: when build_hierarchy is over, every entry it emitted has parent_id
\* None exactly when its level is 1, and every main genre is among them with
\* level 1 and parent_id None
C11_RootsAtLevelOne ==
  bpc \in {"raised", "returned"} =>
    /\ \A k \in 1..Len(built) : (built[k].parent_id = None) <=> (built[k].level = 1)
    /\ \A m \in 1..Len(main_genres) :
         \E k \in 1..Len(built) :
           /\ built[k].name = main_genres[m]
           /\ built[k].level = 1
           /\ built[k].parent_id = None

C15_NeverRaises ==
  bpc # "raised" /\ bexc = None

-----------------------------------------------------------------------------
(* MusicGenreAgentV4.run: generate_database, export_database, print_summary *)

OtherThanRun == <<mergeVars, valVars, statusVars, levelVars, idVars, agentVars>>

\* process_in_batches: the loop has a next batch; generate_combinations is
\* called with batch_end - batch_start
RunBatchStart ==
  /\ rpc = "phase1"
  /\ batches_done * batch_size < target_count
  /\ LET batch_start == batches_done * batch_size
         batch_end == Min(batch_start + batch_size, target_count)
     IN limit' = batch_end - batch_start
  /\ generated' = <<>>
  /\ gpc' = "regional"
  /\ rk' = 0
  /\ micro_n' = 0
  /\ micro_i' = 0
  /\ returned' = <<>>
  /\ rpc' = "generate"
  /\ UNCHANGED <<config, assigned, buildVars>>
  /\ UNCHANGED <<target_count, batch_size, export_format, rexc, batches_done, db, run_result>>

\* batch_genres = builder.build_hierarchy(combinations, enricher)
RunBuildCall ==
  /\ rpc = "generate"
  /\ gpc = "returned"
  /\ genre_combinations' = returned
  /\ built' = <<>>
  /\ bpc' = "call"
  /\ bexc' = None
  /\ rpc' = "build"
  /\ UNCHANGED genVars
  /\ UNCHANGED <<target_count, batch_size, export_format, rexc, batches_done, db, run_result>>

\* the IndexError of generate_combinations leaves process_in_batches and
\* generate_database and reaches the try block of run
RunGenerateRaised ==
  /\ rpc = "generate"
  /\ gpc = "raised"
  /\ rexc' = Some("IndexError")
  /\ rpc' = "except"
  /\ UNCHANGED <<genVars, buildVars>>
  /\ UNCHANGED <<target_count, batch_size, export_format, batches_done, db, run_result>>

\* the exception of build_hierarchy reaches the try block of run likewise
RunBuildRaised ==
  /\ rpc = "build"
  /\ bpc = "raised"
  /\ rexc' = bexc
  /\ rpc' = "except"
  /\ UNCHANGED <<genVars, buildVars>>
  /\ UNCHANGED <<target_count, batch_size, export_format, batches_done, db, run_result>>

\* range(0, total_genres, batch_size) is used up; here that is before any
\* batch, so all_genres is empty: merge_duplicates and validate_batch loop
\* over nothing and generate_database returns the empty list
RunGenerated ==
  /\ rpc = "phase1"
  /\ batches_done * batch_size >= target_count
  /\ batches_done = 0
  /\ db' = <<>>
  /\ rpc' = "export"
  /\ UNCHANGED <<genVars, buildVars>>
  /\ UNCHANGED <<target_count, batch_size, export_format, rexc, batches_done, run_result>>

\* export_database: the files are written, or a write raises OSError
RunExport ==
  /\ rpc = "export"
  /\ \E written \in BOOLEAN :
       IF written
       THEN rpc' = "summary" /\ rexc' = rexc
       ELSE rpc' = "except" /\ rexc' = Some("OSError")
  /\ UNCHANGED <<genVars, buildVars>>
  /\ UNCHANGED <<target_count, batch_size, export_format, batches_done, db, run_result>>

\* print_summary, then return genres; len(genres)/elapsed_time raises
\* ZeroDivisionError when the clock has not moved since __init__
RunSummary ==
  /\ rpc = "summary"
  /\ \E clock_moved \in BOOLEAN :
       IF clock_moved
       THEN rpc' = "returned" /\ run_result' = db /\ rexc' = rexc
       ELSE rpc' = "except" /\ rexc' = Some("ZeroDivisionError") /\ run_result' = run_result
  /\ UNCHANGED <<genVars, buildVars>>
  /\ UNCHANGED <<target_count, batch_size, export_format, batches_done, db>>

\* run without the try block: the exception leaves run
RunCatchPropagates ==
  /\ rpc = "except"
  /\ rpc' = "propagated"
  /\ UNCHANGED <<genVars, buildVars>>
  /\ UNCHANGED <<target_count, batch_size, export_format, rexc, batches_done, db, run_result>>

\* except Exception as e: ... return []
RunCatch ==
  /\ rpc = "except"
  /\ run_result' = <<>>
  /\ rpc' = "returned"
  /\ UNCHANGED <<genVars, buildVars>>
  /\ UNCHANGED <<target_count, batch_size, export_format, rexc, batches_done, db>>

\* the values of export_format: the three export_database knows, and another
ExportFormats == {"csv", "compressed", "both", "json"}

\* run(target_count, export_format) of a fresh agent, for every small
\* vocabulary, target and batch size
InitRun ==
  /\ \E nr \in 0..MaxRegions, ne \in 0..MaxEras, ni \in 0..MaxInstruments, nb \in 0..MaxBases :
       config = Config(nr, ne, ni, nb)
  /\ limit = 0
  /\ generated = <<>>
  /\ gpc = "idle"
  /\ rk = 0
  /\ micro_n = 0
  /\ micro_i = 0
  /\ returned = <<>>
  /\ assigned = <<>>
  /\ target_count \in 0..MaxTarget
  /\ batch_size \in 1..MaxBatchSize
  /\ export_format \in ExportFormats
  /\ rpc = "phase1"
  /\ rexc = None
  /\ batches_done = 0
  /\ db = <<>>
  /\ run_result = <<>>
  /\ BuildIdle
  /\ BuilderInit
  /\ StatusIdle
  /\ LevelIdle
  /\ AgentIdle
  /\ MergeIdle
  /\ ValIdle

NextRun ==
  \/ RunBatchStart /\ UNCHANGED OtherThanRun
  \/ GenRegional /\ UNCHANGED <<OtherThanRun, buildVars, runVars>>
  \/ GenEra /\ UNCHANGED <<OtherThanRun, buildVars, runVars>>
  \/ GenInstrument /\ UNCHANGED <<OtherThanRun, buildVars, runVars>>
  \/ GenModifier /\ UNCHANGED <<OtherThanRun, buildVars, runVars>>
  \/ GenMicro /\ UNCHANGED <<OtherThanRun, buildVars, runVars>>
  \/ GenReturn /\ UNCHANGED <<OtherThanRun, buildVars, runVars>>
  \/ RunGenerateRaised /\ UNCHANGED OtherThanRun
  \/ RunBuildCall /\ UNCHANGED OtherThanRun
  \/ BuildHierarchy /\ UNCHANGED <<OtherThanRun, genVars, runVars>>
  \/ RunBuildRaised /\ UNCHANGED OtherThanRun
  \/ RunGenerated /\ UNCHANGED OtherThanRun
  \/ RunExport /\ UNCHANGED OtherThanRun
  \/ RunSummary /\ UNCHANGED OtherThanRun
  \/ RunCatch /\ UNCHANGED OtherThanRun

SpecRun == InitRun /\ [][NextRun]_vars

\* C16: an exception raised by generation, export or summary never leaves
\* run, and run then returns the empty list
C16_CaughtAndEmpty ==
  /\ rpc # "propagated"
  /\ (rpc = "returned" /\ rexc # None) => run_result = <<>>

\* run has returned [] after the exception of the generation phase
C16_Witness ==
  /\ rpc = "returned"
  /\ rexc = Some("AttributeError")
  /\ bpc = "raised"
  /\ run_result = <<>>

\* how many batches range(0, target_count, batch_size) has
NumBatches == (target_count + batch_size - 1) \div batch_size

-----------------------------------------------------------------------------
(* MusicGenreAgentV4.__init__ and the detector it builds *)

\* _are_similar(g1, g2) of a detector whose self.similarity_threshold is `threshold`
AreSimilarAt(threshold, jf, g1, g2) ==
  \/ Lower(g1.name) = Lower(g2.name)
  \/ /\ jf
     /\ AboveThreshold(JaroWinkler(Lower(g1.name), Lower(g2.name)), threshold)
  \/ AreVariants(g1.name, g2.name)

\* values of validation_rules.similarity_threshold a config file may set
ThresholdChoices == {80, 85, 90}

\* `self.duplicate_detector = DuplicateDetector()`: the parameter keeps its default
AgentInit ==
  /\ apc = "new"
  /\ det_similarity_threshold' = similarity_threshold
  /\ apc' = "constructed"
  /\ UNCHANGED <<cfg_similarity_threshold, pair, judged>>

\* self.duplicate_detector._are_similar(g1, g2), as merge_duplicates calls it
AgentAreSimilar ==
  /\ apc = "constructed"
  /\ judged' = AreSimilarAt(det_similarity_threshold, jellyfish, pair[1], pair[2])
  /\ apc' = "judged"
  /\ UNCHANGED <<cfg_similarity_threshold, det_similarity_threshold, pair>>

InitAgent ==
  /\ jellyfish \in BOOLEAN
  /\ MergeStart(<<>>, "idle")
  /\ GenIdle
  /\ ValIdle
  /\ StatusIdle
  /\ LevelIdle
  /\ BuilderInit
  /\ BuildIdle
  /\ RunIdle
  /\ cfg_similarity_threshold \in ThresholdChoices
  /\ det_similarity_threshold = 0
  /\ \E n1 \in MergeNames, n2 \in MergeNames :
       pair = <<InputGenre(1, n1, SourceText(1)), InputGenre(2, n2, SourceText(2))>>
  /\ judged = FALSE
  /\ apc = "new"

NextAgent ==
  \/ AgentInit /\ UNCHANGED <<mergeVars, genVars, valVars, statusVars, levelVars, idVars, buildVars, runVars>>
  \/ AgentAreSimilar /\ UNCHANGED <<mergeVars, genVars, valVars, statusVars, levelVars, idVars, buildVars, runVars>>

SpecAgent == InitAgent /\ [][NextAgent]_vars

\* C21: the detector the agent builds compares against the configured
\* validation_rules.similarity_threshold, so that every pair is judged as a
\* detector with the configured threshold judges it
C21_ConfiguredThreshold ==
  /\ apc \in {"constructed", "judged"} => det_similarity_threshold = cfg_similarity_threshold
  /\ apc = "judged" =>
       judged = AreSimilarAt(cfg_similarity_threshold, jellyfish, pair[1], pair[2])

-----------------------------------------------------------------------------
(* merge_duplicates on lists that repeat names, all from one source *)

InitDistinct ==
  /\ jellyfish \in BOOLEAN
  /\ \E n \in 0..MaxLen :
       \E f \in [1..n -> MergeNames \X {SourceText(1)}] : MergeStart(InputList(n, f), "loop")
  /\ GenIdle
  /\ ValIdle
  /\ RestIdle

SpecDistinct == InitDistinct /\ [][NextMerge]_vars

\* C22: no two distinct entries of what merge_duplicates returned are judged
\* similar by _are_similar, in either order; in particular no two of them
\* have names that are equal ignoring case
C22_PairwiseDistinct ==
  mpc = "returned" =>
    \A a \in 1..Len(MergeResult) : \A b \in 1..Len(MergeResult) :
      a # b =>
        /\ ~AreSimilar(jellyfish, MergeResult[a], MergeResult[b])
        /\ Lower(MergeResult[a].name) # Lower(MergeResult[b].name)

\* the first call has returned for an input that held one name, ignoring
\* case, before and after an entry that was kept on its own
C22_Witness ==
  /\ pass = 1
  /\ mpc = "returned"
  /\ Len(genres) >= 3
  /\ Lower(genres[1].name) = Lower(genres[3].name)
  /\ ~AreSimilar(jellyfish, genres[1], genres[2])
  /\ Len(out1) = 2

-----------------------------------------------------------------------------
(* merge_duplicates on entries whose sources are as long as the cap allows *)

\* 'source': source[:100]
source_cap == 100

\* a source of exactly source_cap characters
LongSource(c) == [k \in 1..source_cap |-> c]

CapSources == {SourceText(1), LongSource("a"), LongSource("b")}

CapNames == {N_UKJazz, N_ukjazz, N_Jazz}

InitCap ==
  /\ jellyfish = FALSE
  /\ \E n \in 0..MaxLen :
       \E f \in [1..n -> CapNames \X CapSources] : MergeStart(InputList(n, f), "loop")
  /\ GenIdle
  /\ ValIdle
  /\ RestIdle

SpecCap == InitCap /\ [][NextMerge]_vars

\* C23: when every entry handed to merge_duplicates has a source of at most
\* 100 characters, so has every entry it returns
C23_SourceCapKept ==
  mpc = "returned" =>
    ((\A p \in 1..Len(genres) : Len(genres[p].source) <= source_cap)
       => \A k \in 1..Len(MergeResult) : Len(MergeResult[k].source) <= source_cap)

-----------------------------------------------------------------------------
(* _infer_period on names made of era words, and the period the entry gets *)

\* 'period': period[:15]
period_cap == 15

\* the eras of period_rules and words of the fallback tests, and one of neither
PeriodWords ==
  [k \in 1..Len(period_rules) |-> period_rules[k][1]]
  \o << <<"S","y","n","t","h">>,
        <<"C","y","b","e","r">>,
        <<"F","o","l","k">>,
        <<"T","r","a","d","i","t","i","o","n","a","l">>,
        <<"J","a","z","z">> >>

\* the names of one to MaxWords words
PeriodNames ==
  UNION { { Join(<<" ">>, [k \in 1..n |-> PeriodWords[f[k]]]) : f \in [1..n -> 1..Len(PeriodWords)] }
          : n \in 1..MaxWords }

\* `period = self._infer_period(genre_name)`
InferPeriodCall ==
  /\ spc = "period"
  /\ arg_period' = InferPeriod(arg_genre_name)
  /\ spc' = "call"
  /\ UNCHANGED <<arg_genre_name, ret_status>>

\* generate_realistic_metadata at the call of _infer_period
InitPeriod ==
  /\ arg_genre_name \in PeriodNames
  /\ arg_period = <<>>
  /\ ret_status = <<>>
  /\ spc = "period"
  /\ LevelIdle
  /\ BuilderInit
  /\ BuildIdle
  /\ RunIdle
  /\ AgentIdle
  /\ MergeIdle
  /\ GenIdle
  /\ ValIdle

NextPeriod ==
  \/ InferPeriodCall /\ UNCHANGED <<mergeVars, genVars, valVars, levelVars, idVars, buildVars, runVars, agentVars>>
  \/ InferStatusCall /\ UNCHANGED <<mergeVars, genVars, valVars, levelVars, idVars, buildVars, runVars, agentVars>>

SpecPeriod == InitPeriod /\ [][NextPeriod]_vars

\* C24: the period _infer_period returns, cut to 15 characters, matches the
\* period pattern of the validator, whatever era word the name holds
C24_InferredPeriodValid ==
  spc \in {"call", "returned"} => ValidatePeriodFormat(Take(arg_period, period_cap))

\* the same for every name that does not get the period of 'Prehistoric'
C24_ButPrehistoric ==
  (spc \in {"call", "returned"} /\ arg_period # period_rules[Len(period_rules)][2])
    => ValidatePeriodFormat(Take(arg_period, period_cap))

-----------------------------------------------------------------------------
(* parent references across merge_duplicates *)

\* the ids of the entries of a list
IdsOf(gs) == {gs[k].id : k \in 1..Len(gs)}

\* every parent_id that is not None is the id of an entry of the list
ParentsPresent(gs) == \A k \in 1..Len(gs) : gs[k].parent_id \subseteq IdsOf(gs)

\* C25: when every parent_id of the input of merge_duplicates that is not
\* None is the id of an input entry, every parent_id of the output that is
\* not None is the id of an output entry
C25_ParentsKept ==
  (mpc = "returned" /\ ParentsPresent(genres)) => ParentsPresent(MergeResult)

-----------------------------------------------------------------------------
(* the computed level against the level of the parent *)

\* C26 as stated: the level computed under a parent is strictly greater than
\* the level of that parent, for every type, component count and parent level
C26_ChildDeeper ==
  (lpc # "call" /\ arg_parent_id # None) => ret_level > ParentLevel

\* C26: the level computed under a parent is at least 2, and so strictly
\* greater than the level of a parent at level 1 (a root, or a parent absent
\* from the level map); under a deeper parent the cap of the row decides
C26_DeeperThanRoot ==
  (lpc # "call" /\ arg_parent_id # None) =>
    /\ ret_level >= 2
    /\ ParentLevel = 1 => ret_level > ParentLevel

\* a regional_fusion candidate of two components under a parent the map
\* holds at level 1 gets level 2
C26_Witness ==
  /\ lpc # "call"
  /\ arg_combo.type = "regional_fusion"
  /\ Len(arg_combo.components) = 2
  /\ arg_parent_id # None
  /\ (CHOOSE x \in arg_parent_id : TRUE) \in DOMAIN arg_level_map
  /\ ParentLevel = 1
  /\ ret_level = 2

====
